---------------------------- MODULE Spec2Model ----------------------------
(***************************************************************************)
(* Model of src/app.py: a Streamlit page that downloads a price series,    *)
(* runs an ADF stationarity test, fits ARIMA(5,0,0), forecasts             *)
(* forecast_days business days and renders a chart and a table.            *)
(*                                                                         *)
(* Dates are day numbers: day 0 is Monday 2024-01-01, the default of the   *)
(* start-date picker, so Weekday(d) = d % 7 is Python's date.weekday().    *)
(* A p-value is counted in units of 0.05 (Threshold = 1 is 0.05); NaN is   *)
(* a float that compares False with everything.                            *)
(* The third-party calls (yf.download, adfuller, ARIMA.fit/forecast) are   *)
(* the environment: each returns one of the outcomes the library can       *)
(* produce, an exception included.                                         *)
(***************************************************************************)
EXTENDS Integers, Sequences, FiniteSets

VARIABLES
    ticker,          \* st.text_input value (widget state, kept across reruns)
    start_date,      \* st.date_input value
    forecast_days,   \* st.number_input value
    today,           \* dt.date.today() of the session
    end_date,        \* module-level end_date, assigned on every rerun
    pc,              \* position of the script
    df,              \* the downloaded frame: its Date column, in order
    fetch_args,      \* <<>> or <<[ticker, start, end]>>: the yf.download call
    adf_result,      \* what adfuller(...) did in this run
    fit_result,      \* what ARIMA(...).fit() did in this run
    forecast,        \* model_fit.forecast(steps=forecast_days)
    forecast_dates,  \* pd.date_range(...)[1:]
    fig,             \* <<>> or <<the plotly figure>>
    shown,           \* the elements on the page, in the order written
    exception,       \* the exception that left the script, if any
    trace,           \* the pipeline steps this run has executed, in order
    saved            \* <<>> or <<one ended run>>, kept to compare runs

vars == <<ticker, start_date, forecast_days, today, end_date, pc, df,
          fetch_args, adf_result, fit_result, forecast, forecast_dates,
          fig, shown, exception, trace, saved>>

---------------------------------------------------------------------------
(* Bounds of the model *)

\* the session's day ranges over 1..LastDay, the date picker over 0..LastDay
LastDay == 8
\* p-values range over 0..MaxP units of 0.05, and NaN
MaxP == 2
\* a fitted model is abstracted to one of the levels 1..MaxLevel
MaxLevel == 2
\* the sessions in which two runs are compared use days up to RunsLastDay
RunsLastDay == 2

(* Program constants *)

MinForecastDays == 5
MaxForecastDays == 60
DefaultForecastDays == 10
DefaultStartDate == 0
\* 0.05, in units of 0.05
Threshold == 1

DefaultTicker == "1299.HK"
Tickers == {"", "1299.HK", "BTC-USD"}
Days == 0..LastDay

\* adfuller / fit outcomes that are not values
NotCalled == -3
Raised == -2
NaN == -1

---------------------------------------------------------------------------
(* Dates: pandas' business-day range *)

Weekday(d) == d % 7

IsBusinessDay(d) == Weekday(d) < 5

\* BusinessDay.rollforward: a weekend date moves to the next Monday
RollForward(d) == IF IsBusinessDay(d) THEN d ELSE d + (7 - Weekday(d))

\* d + 1 * BusinessDay
BDayApply(d) ==
    IF Weekday(d) = 4 THEN d + 3
    ELSE IF Weekday(d) = 5 THEN d + 2
    ELSE d + 1

RECURSIVE GenerateRange(_, _)
GenerateRange(cur, periods) ==
    IF periods <= 0 THEN <<>>
    ELSE <<cur>> \o GenerateRange(BDayApply(cur), periods - 1)

\* pd.date_range(start=start, periods=periods, freq="B")
DateRange(start, periods) == GenerateRange(RollForward(start), periods)

\* x[1:]
DropFirst(s) == IF s = <<>> THEN <<>> ELSE Tail(s)

ForecastDates_KeepFirst(last, n) == DateRange(last, n)

ForecastDates_NoExtraPeriod(last, n) == DropFirst(DateRange(last, n))

\* pd.date_range(start=df["Date"].iloc[-1], periods=forecast_days + 1, freq="B")[1:]
ForecastDates(last, n) == DropFirst(DateRange(last, n + 1))

---------------------------------------------------------------------------
(* The libraries *)

\* the days on which the provider has a row for the symbol
Trades(t, d) ==
    CASE t = "BTC-USD" -> TRUE
      [] t = "1299.HK" -> IsBusinessDay(d)
      [] OTHER -> FALSE

\* the rows of [start, end): yfinance's end is exclusive
History(t, start, end) ==
    IF end <= start THEN <<>>
    ELSE SelectSeq([i \in 1..(end - start) |-> start + i - 1],
                   LAMBDA d : Trades(t, d))

\* yf.download: the rows, or an empty frame (unknown symbol, provider error)
Download(t, start, end) == {<<>>, History(t, start, end)}

\* adfuller(...)[1], or the call raises
AdfOutcomes == {Raised, NaN} \cup (0..MaxP)

\* ARIMA(...).fit(), or the call raises
FitOutcomes == {Raised} \cup (1..MaxLevel)

\* model_fit.forecast(steps): steps values
Forecast(model_fit, steps) == [i \in 1..steps |-> model_fit]

\* float comparison a < b: False when either side is NaN
FloatLess(a, b) == a # NaN /\ b # NaN /\ a < b

---------------------------------------------------------------------------
(* check_stationarity *)

IsStationary_AtOrBelow(p_value) == p_value # NaN /\ p_value <= Threshold

\* p_value < 0.05
IsStationary(p_value) == FloatLess(p_value, Threshold)

StationaryMsg == "info: The series is Stationary (ADF p-value < 0.05)"
NotStationaryMsg == "info: The series is Not Stationary (ADF p-value >= 0.05)"

\* the message check_stationarity returns
Verdict(p_value) == IF IsStationary(p_value) THEN StationaryMsg ELSE NotStationaryMsg

---------------------------------------------------------------------------
(* The page *)

NoDataError == "error: No data found. Check stock symbol."
AdfSubheader == "subheader: Stationarity Test (ADF)"
Chart == "plotly_chart"
DataSubheader == "subheader: Data Used"
DataFrame == "dataframe"

ClearedPage_KeepsElements == shown

\* a rerun draws the page from the top: nothing of the last run stays
ClearedPage == <<>>

DfEmpty_Never(d) == FALSE

\* df.empty
DfEmpty(d) == d = <<>>

Running == {"fetch", "check", "fit", "chart", "table"}
Ended == {"nodata", "crashed", "done"}

TypeOK ==
    /\ ticker \in Tickers
    /\ start_date \in Days
    /\ forecast_days \in MinForecastDays..MaxForecastDays
    /\ today \in 1..LastDay
    /\ end_date = today
    /\ pc \in {"idle"} \cup Running \cup Ended
    /\ adf_result \in {NotCalled} \cup AdfOutcomes
    /\ fit_result \in {NotCalled} \cup FitOutcomes
    /\ exception \in {"none", "adfuller", "ARIMA.fit"}
    /\ Len(fig) <= 1
    /\ Len(fetch_args) <= 1
    /\ Len(saved) <= 1

Init ==
    /\ ticker = DefaultTicker
    /\ start_date = DefaultStartDate
    /\ forecast_days = DefaultForecastDays
    /\ today \in 1..LastDay
    /\ end_date = today
    /\ pc = "idle"
    /\ df = <<>>
    /\ fetch_args = <<>>
    /\ adf_result = NotCalled
    /\ fit_result = NotCalled
    /\ forecast = <<>>
    /\ forecast_dates = <<>>
    /\ fig = <<>>
    /\ shown = <<>>
    /\ exception = "none"
    /\ trace = <<>>
    /\ saved = <<>>

\* the script runs from the top (lines 12-47): a fresh page, fresh locals
Rerun ==
    /\ end_date' = today
    /\ df' = <<>>
    /\ fetch_args' = <<>>
    /\ adf_result' = NotCalled
    /\ fit_result' = NotCalled
    /\ forecast' = <<>>
    /\ forecast_dates' = <<>>
    /\ fig' = <<>>
    /\ shown' = ClearedPage
    /\ exception' = "none"
    /\ trace' = <<>>
    /\ saved' = IF saved = <<>> THEN <<>> ELSE <<[saved[1] EXCEPT !.later = TRUE]>>
    /\ UNCHANGED today

\* the user edits the ticker; the script reruns with the button not pressed
SetTicker ==
    /\ pc \notin Running
    /\ \E t \in Tickers \ {ticker} : ticker' = t
    /\ Rerun
    /\ pc' = "idle"
    /\ UNCHANGED <<start_date, forecast_days>>

SetStartDate ==
    /\ pc \notin Running
    /\ \E d \in Days \ {start_date} : start_date' = d
    /\ Rerun
    /\ pc' = "idle"
    /\ UNCHANGED <<ticker, forecast_days>>

\* number_input(min_value=5, max_value=60)
SetForecastDays ==
    /\ pc \notin Running
    /\ \E n \in (MinForecastDays..MaxForecastDays) \ {forecast_days} :
          forecast_days' = n
    /\ Rerun
    /\ pc' = "idle"
    /\ UNCHANGED <<ticker, start_date>>

\* the user presses the button: the script reruns and st.button returns True
Click ==
    /\ pc \notin Running
    /\ Rerun
    /\ pc' = "fetch"
    /\ UNCHANGED <<ticker, start_date, forecast_days>>

\* df = yf.download(ticker, start=start_date, end=end_date); if df.empty: ...
Fetch ==
    /\ pc = "fetch"
    /\ \E d \in Download(ticker, start_date, end_date) :
          /\ df' = d
          /\ IF DfEmpty(d)
             THEN /\ shown' = Append(shown, NoDataError)
                  /\ pc' = "nodata"
             ELSE /\ shown' = shown
                  /\ pc' = "check"
    /\ fetch_args' = <<[ticker |-> ticker, start |-> start_date, end |-> end_date]>>
    /\ trace' = Append(trace, "fetch")
    /\ UNCHANGED <<ticker, start_date, forecast_days, today, end_date,
                   adf_result, fit_result, forecast, forecast_dates, fig,
                   exception, saved>>

\* st.subheader(...); st.info(check_stationarity(df["Close"]))
CheckStationarity ==
    /\ pc = "check"
    /\ \E r \in AdfOutcomes :
          /\ adf_result' = r
          /\ IF r = Raised
             THEN /\ shown' = Append(shown, AdfSubheader)
                  /\ exception' = "adfuller"
                  /\ pc' = "crashed"
             ELSE /\ shown' = shown \o <<AdfSubheader, Verdict(r)>>
                  /\ exception' = exception
                  /\ pc' = "fit"
    /\ trace' = Append(trace, "check")
    /\ UNCHANGED <<ticker, start_date, forecast_days, today, end_date, df,
                   fetch_args, fit_result, forecast, forecast_dates, fig, saved>>

\* model_fit = ARIMA(...).fit(); forecast = ...; forecast_dates = ...
FitForecast ==
    /\ pc = "fit"
    /\ \E m \in FitOutcomes :
          /\ fit_result' = m
          /\ IF m = Raised
             THEN /\ exception' = "ARIMA.fit"
                  /\ pc' = "crashed"
                  /\ UNCHANGED <<forecast, forecast_dates>>
             ELSE /\ forecast' = Forecast(m, forecast_days)
                  /\ forecast_dates' = ForecastDates(df[Len(df)], forecast_days)
                  /\ exception' = exception
                  /\ pc' = "chart"
    /\ trace' = Append(trace, "fit")
    /\ UNCHANGED <<ticker, start_date, forecast_days, today, end_date, df,
                   fetch_args, adf_result, fig, shown, saved>>

\* fig = go.Figure(); two traces; st.plotly_chart(fig)
PlotChart ==
    /\ pc = "chart"
    /\ fig' = <<[title |-> ticker, actual_x |-> df,
                 forecast_x |-> forecast_dates, forecast_y |-> forecast]>>
    /\ shown' = Append(shown, Chart)
    /\ trace' = Append(trace, "chart")
    /\ pc' = "table"
    /\ UNCHANGED <<ticker, start_date, forecast_days, today, end_date, df,
                   fetch_args, adf_result, fit_result, forecast,
                   forecast_dates, exception, saved>>

\* st.subheader("Data Used"); st.dataframe(df)
ShowData ==
    /\ pc = "table"
    /\ shown' = shown \o <<DataSubheader, DataFrame>>
    /\ trace' = Append(trace, "table")
    /\ pc' = "done"
    /\ UNCHANGED <<ticker, start_date, forecast_days, today, end_date, df,
                   fetch_args, adf_result, fit_result, forecast,
                   forecast_dates, fig, exception, saved>>

Next ==
    \/ SetTicker
    \/ SetStartDate
    \/ SetForecastDays
    \/ Click
    \/ Fetch
    \/ CheckStationarity
    \/ FitForecast
    \/ PlotChart
    \/ ShowData

Spec == Init /\ [][Next]_vars

---------------------------------------------------------------------------
(* Sessions in which one ended run is kept, to compare a later run with it *)

\* what a run is given: the inputs, the provider's response, and what the
\* two library calls did with it
RunKey ==
    [ticker |-> ticker, start |-> start_date, end |-> end_date,
     horizon |-> forecast_days, response |-> df,
     adf |-> adf_result, fit |-> fit_result]

\* what a run ends with
RunResult ==
    [state |-> pc, shown |-> shown, exception |-> exception,
     forecast_dates |-> forecast_dates, forecast |-> forecast,
     fig |-> fig, table |-> IF DataFrame \in {shown[i] : i \in DOMAIN shown}
                            THEN df ELSE <<>>]

\* an observer, not a step of the script: keeps the run that has just ended
Remember ==
    /\ pc \in Ended
    /\ saved = <<>>
    /\ saved' = <<[key |-> RunKey, result |-> RunResult, later |-> FALSE]>>
    /\ UNCHANGED <<ticker, start_date, forecast_days, today, end_date, pc, df,
                   fetch_args, adf_result, fit_result, forecast,
                   forecast_dates, fig, shown, exception, trace>>

\* ... and the default and the smallest horizon
RunsHorizonSet == {DefaultForecastDays, MinForecastDays}

InitRuns == Init /\ today <= RunsLastDay

NextRuns ==
    \/ /\ Next
       /\ start_date' <= RunsLastDay
       /\ forecast_days' \in RunsHorizonSet
    \/ Remember

SpecRuns == InitRuns /\ [][NextRuns]_vars

---------------------------------------------------------------------------
(* Claims *)

Elements == {shown[i] : i \in DOMAIN shown}

Calls(step) == Cardinality({i \in DOMAIN trace : trace[i] = step})

LastHistorical == df[Len(df)]

Forecasted == pc \in {"chart", "table", "done"}

\* C1: a triggered run whose fetch returns an empty series ends in NoData with
\* the single 'no data' error shown; the stationarity check is never called,
\* the model is never fitted or forecast, no chart and no table is produced.
C1_EmptyFetchEndsInNoData ==
    (trace # <<>> /\ df = <<>>) =>
        /\ pc = "nodata"
        /\ shown = <<NoDataError>>
        /\ trace = <<"fetch">>
        /\ adf_result = NotCalled
        /\ fit_result = NotCalled
        /\ forecast = <<>> /\ forecast_dates = <<>>
        /\ fig = <<>>
        /\ Chart \notin Elements /\ DataFrame \notin Elements

\* a query with rows in range whose fetch nevertheless came back empty
C1_Witness ==
    /\ pc = "nodata"
    /\ History(ticker, start_date, end_date) # <<>>
    /\ df = <<>>

\* C2: the forecast dates are exactly the first forecast_days business days
\* strictly after the last historical date: the first one is the earliest
\* business day after it, and no business day between two consecutive
\* forecast dates is skipped.
C2_NextBusinessDays ==
    Forecasted =>
        /\ Len(forecast_dates) = forecast_days
        /\ forecast_dates[1] > LastHistorical
        /\ IsBusinessDay(forecast_dates[1])
        /\ \A d \in (LastHistorical + 1)..(forecast_dates[1] - 1) : ~IsBusinessDay(d)
        /\ \A i \in 1..(Len(forecast_dates) - 1) :
              /\ forecast_dates[i] < forecast_dates[i + 1]
              /\ IsBusinessDay(forecast_dates[i + 1])
              /\ \A d \in (forecast_dates[i] + 1)..(forecast_dates[i + 1] - 1) :
                    ~IsBusinessDay(d)

\* C3: the forecast dates are strictly increasing, every one of them is
\* strictly later than the last historical date, and none is a Saturday or
\* a Sunday.
C3_DatesIncreasingAfterLastOnBusinessDays ==
    Forecasted =>
        /\ \A i \in 1..(Len(forecast_dates) - 1) :
              forecast_dates[i] < forecast_dates[i + 1]
        /\ \A i \in DOMAIN forecast_dates :
              /\ forecast_dates[i] > LastHistorical
              /\ Weekday(forecast_dates[i]) \notin {5, 6}

\* the longest horizon, from a series that ends on a Saturday
C3_Witness ==
    /\ pc = "done"
    /\ Weekday(LastHistorical) = 5
    /\ forecast_days = MaxForecastDays
    /\ Len(forecast_dates) = MaxForecastDays

\* C4: in a run that reaches the forecast step, the forecast values and the
\* forecast dates both have exactly forecast_days entries, and so do the x
\* and y of the chart's forecast trace.
C4_ForecastHasHorizonEntries ==
    Forecasted =>
        /\ Len(forecast) = forecast_days
        /\ Len(forecast_dates) = forecast_days
        /\ fig # <<>> =>
              /\ Len(fig[1].forecast_x) = forecast_days
              /\ Len(fig[1].forecast_y) = forecast_days

\* the shortest horizon, charted
C4_Witness ==
    /\ pc = "table"
    /\ forecast_days = MinForecastDays
    /\ fig # <<>>
    /\ Len(fig[1].forecast_x) = MinForecastDays

\* C5: check_stationarity reports 'stationary' exactly when the p-value is
\* strictly below 0.05 and 'not stationary' for every other p-value, 0.05
\* itself and NaN included; nothing but the p-value decides.
C5_StationaryIffBelowThreshold ==
    adf_result \notin {NotCalled, Raised} =>
        /\ StationaryMsg \in Elements
              <=> (adf_result # NaN /\ adf_result < Threshold)
        /\ NotStationaryMsg \in Elements
              <=> ~(adf_result # NaN /\ adf_result < Threshold)

\* a p-value of exactly 0.05 reported as not stationary
C5_Witness ==
    /\ pc = "fit"
    /\ adf_result = Threshold
    /\ NotStationaryMsg \in Elements

\* the messages the program itself writes with st.error
ErrorMessages == {NoDataError}

\* C6: when the stationarity test or the model fit fails, the run ends in an
\* error state showing a descriptive error message written by the program;
\* the failure never leaves the script as an unhandled exception.
C6_FailuresSurfaced ==
    (adf_result = Raised \/ fit_result = Raised) =>
        /\ exception = "none"
        /\ Elements \cap ErrorMessages # {}

\* the states of the specification's state machine; a run that an exception
\* ended is in none of them
PipelineState ==
    CASE pc \in {"idle", "done"} -> "Idle"
      [] pc \in Running -> "Running"
      [] pc = "nodata" -> "NoData"
      [] OTHER -> "Aborted"

StepOrder == <<"fetch", "check", "fit", "chart", "table">>

\* the steps of a run happen in the fixed order, each at most once, and
\* nothing follows a fetch that returned no data
StepsInOrder ==
    /\ Len(trace) <= Len(StepOrder)
    /\ \A i \in DOMAIN trace : trace[i] = StepOrder[i]
    /\ Len(trace) > 1 => df # <<>>
    /\ pc = "idle" => trace = <<>>

\* C7: the pipeline has only the states Idle, Running and NoData, and inside
\* a run the steps happen in the order fetch, stationarity check, fit and
\* forecast, chart, table, the later ones only after a fetch with data.
C7_ThreeStatesFixedOrder ==
    /\ PipelineState \in {"Idle", "Running", "NoData"}
    /\ StepsInOrder

RunFailed ==
    \/ trace # <<>> /\ df = <<>>
    \/ adf_result = Raised
    \/ fit_result = Raised

\* C8: fetch, stationarity test and fit are each invoked at most once in a
\* run, and a run in which one of them fails shows no stationarity verdict,
\* no chart and no table.
C8_ErrorsTerminalNoPartialResult ==
    /\ Calls("fetch") <= 1 /\ Calls("check") <= 1 /\ Calls("fit") <= 1
    /\ RunFailed =>
          Elements \cap {StationaryMsg, NotStationaryMsg, Chart, DataFrame} = {}

\* C9: a run given the same ticker, start date, end date, horizon and provider
\* response as an earlier run (and the same answers of the two library calls)
\* ends in the same state with the same verdict, forecast dates, forecast
\* values, chart and table, whatever ran in between.
C9_SameInputsSameResult ==
    (saved # <<>> /\ pc \in Ended /\ saved[1].key = RunKey) =>
        saved[1].result = RunResult

\* a later completed run with the key of the remembered one
C9_Witness ==
    /\ saved # <<>>
    /\ saved[1].later
    /\ pc = "done"
    /\ saved[1].key = RunKey
    /\ saved[1].result.state = "done"

\* C10: every fetch is called with a non-empty ticker, a start date not later
\* than the end date, today as the end date, and the run's horizon is an
\* integer in [5,60].
C10_FetchInputsValid ==
    fetch_args # <<>> =>
        /\ fetch_args[1].ticker # ""
        /\ fetch_args[1].start <= fetch_args[1].end
        /\ fetch_args[1].end = today
        /\ forecast_days \in MinForecastDays..MaxForecastDays

=============================================================================
